---- MODULE Spec2Model ----
(***************************************************************************)
(* Relay style pagination (juniper-relay, src/lib.rs).                     *)
(*                                                                         *)
(* One pagination request (first, after, last, before) is served by both   *)
(* forms of the constructor, RelayConnection::new and                      *)
(* RelayConnection::new_async, over the node type of the crate's tests     *)
(* (FakeNode, whose cursor is its i32 id).  The loader closure is the one  *)
(* the documentation describes:                                            *)
(*   SELECT ... WHERE cursor > $after AND cursor < $before LIMIT $limit    *)
(* and it may honour the limit, ignore it, or fail.                        *)
(*                                                                         *)
(* Texts are sequences of one-character strings, so that parsing and       *)
(* formatting of cursors are computed digit by digit.                      *)
(***************************************************************************)
EXTENDS Integers, Sequences, FiniteSets, TLC

\* ---------------------------------------------------------------- bounds
\* largest value of `first` / `last` a request carries
MaxCount == 3
\* largest node id in the backing store
MaxId == 3

\* ------------------------------------------------------------- constants
I32Max == 2147483647
I32Min == (0 - I32Max) - 1

\* ------------------------------------------------ Option and FieldResult
\* an Option is a sequence of length 0 or 1, so that Option::map(F) is
\* [i \in 1..Len(o) |-> F(o[i])]
None == <<>>
Some(v) == <<v>>
IsSome(o) == Len(o) = 1
Unwrap(o) == o[1]
UnwrapOr(o, d) == IF IsSome(o) THEN o[1] ELSE d

Ok(v) == [ok |-> TRUE, val |-> v]
Err(e) == [ok |-> FALSE, err |-> e]

\* Option<Result<T, E>>::transpose: None is Ok(None), Some(Ok(v)) is
\* Ok(Some(v)) and Some(Err(e)) is Err(e)
Transpose(o) ==
    IF ~IsSome(o) THEN Ok(None)
    ELSE IF Unwrap(o).ok THEN Ok(Some(Unwrap(o).val)) ELSE Unwrap(o)

Min(a, b) == IF a < b THEN a ELSE b
Max(a, b) == IF a > b THEN a ELSE b

\* Iterator::take and Iterator::skip
Take(s, k) == SubSeq(s, 1, Min(k, Len(s)))
Skip(s, k) == SubSeq(s, Min(k, Len(s)) + 1, Len(s))

\* ------------------------------------------------------- cursor contract
Digits == <<"0", "1", "2", "3", "4", "5", "6", "7", "8", "9">>
IsDigit(c) == \E i \in 1..10 : Digits[i] = c
DigitVal(c) == (CHOOSE i \in 1..10 : Digits[i] = c) - 1

ParseError(m) == [kind |-> "CursorFormatError", msg |-> m]

\* <i32 as FromStr>::from_str on the digits after the sign: per digit a
\* checked multiplication by ten, then a checked addition (subtraction
\* for a negative number)
RECURSIVE parse_digits(_, _, _)
parse_digits(body, acc, neg) ==
    IF Len(body) = 0 THEN Ok(acc)
    ELSE IF ~IsDigit(Head(body))
         THEN Err(ParseError("invalid digit found in string"))
    ELSE LET d == DigitVal(Head(body))
         IN  IF ~neg /\ (acc > I32Max \div 10 \/ acc * 10 > I32Max - d)
             THEN Err(ParseError("number too large to fit in target type"))
             ELSE IF neg /\ (0 - acc > I32Max \div 10 \/ acc * 10 < I32Min + d)
             THEN Err(ParseError("number too small to fit in target type"))
             ELSE parse_digits(Tail(body), IF neg THEN acc * 10 - d ELSE acc * 10 + d, neg)

\* s.parse() for Cursor = i32
parse(s) ==
    IF Len(s) = 0
    THEN Err(ParseError("cannot parse integer from empty string"))
    ELSE LET signed == Head(s) \in {"+", "-"}
             body == IF signed THEN Tail(s) ELSE s
         IN  IF Len(body) = 0
             THEN Err(ParseError("invalid digit found in string"))
             ELSE parse_digits(body, 0, Head(s) = "-")

RECURSIVE digits(_)
digits(n) ==
    IF n < 10 THEN <<Digits[n + 1]>>
    ELSE Append(digits(n \div 10), Digits[(n % 10) + 1])

\* Cursor::to_string for Cursor = i32
to_string(v) == IF v < 0 THEN <<"-">> \o digits(0 - v) ELSE digits(v)

\* FakeNode and RelayConnectionNode::cursor
Node(i) == [id |-> i]
cursor(node) == node.id

\* --------------------------------------------------------------- builder
InvalidArgument ==
    [kind |-> "InvalidArgument", msg |-> "Pagination argument must be positive"]

\* variant: zero is rejected too
leq_zero_strict(val) == IF val <= 0 THEN Err(InvalidArgument) ELSE Ok(val)

leq_zero(val) == IF val < 0 THEN Err(InvalidArgument) ELSE Ok(val)

\* variant: a `before` that does not parse is passed on as absent
closure_args_before_unchecked(fst, aft, bef) ==
    LET a == Transpose([i \in 1..Len(aft) |-> parse(aft[i])])
    IN  IF ~a.ok THEN a
        ELSE LET b == Transpose([i \in 1..Len(bef) |-> parse(bef[i])])
                 limit == IF IsSome(fst) THEN Some(Unwrap(fst) + 1) ELSE None
             IN  Ok(<<a.val, IF b.ok THEN b.val ELSE None, limit>>)

\* variant: the limit is `first` itself
closure_args_limit_is_first(fst, aft, bef) ==
    LET a == Transpose([i \in 1..Len(aft) |-> parse(aft[i])])
    IN  IF ~a.ok THEN a
        ELSE LET b == Transpose([i \in 1..Len(bef) |-> parse(bef[i])])
             IN  IF ~b.ok THEN b
                 ELSE Ok(<<a.val, b.val, fst>>)

closure_args(fst, aft, bef) ==
    LET a == Transpose([i \in 1..Len(aft) |-> parse(aft[i])])
    IN  IF ~a.ok THEN a
        ELSE LET b == Transpose([i \in 1..Len(bef) |-> parse(bef[i])])
             IN  IF ~b.ok THEN b
                 ELSE LET limit == IF IsSome(fst) THEN Some(Unwrap(fst) + 1)
                                   ELSE None
                      IN  Ok(<<a.val, b.val, limit>>)

\* variant: a list of exactly `last` records already has a previous page
has_previous_page_geq(lst, edges_len) ==
    IF IsSome(lst) THEN edges_len >= Unwrap(lst) ELSE FALSE

has_previous_page(lst, edges_len) ==
    IF IsSome(lst) THEN edges_len > Unwrap(lst) ELSE FALSE

\* variant: the flag is computed on the truncated list
has_next_page_after_take(fst, edges_len) ==
    IF IsSome(fst) THEN Min(edges_len, Unwrap(fst)) > Unwrap(fst) ELSE FALSE

has_next_page(fst, edges_len) ==
    IF IsSome(fst) THEN edges_len > Unwrap(fst) ELSE FALSE

len_after_take(fst, edges_len) == Min(edges_len, UnwrapOr(fst, edges_len))

skip(fst, lst, edges_len) ==
    Max(0, len_after_take(fst, edges_len) - UnwrapOr(lst, edges_len))

\* variant: the records are skipped before the list is truncated
skip_then_take(edges, f, sk) == Take(Skip(edges, sk), f)

\* edges.into_iter().take(first).skip(skip)
take_then_skip(edges, f, sk) == Skip(Take(edges, f), sk)

Edge(node) == [node |-> node, cursor |-> to_string(cursor(node))]

start_cursor(es) == IF Len(es) = 0 THEN None ELSE Some(es[1].cursor)

\* variant: the end cursor is taken from the first edge
end_cursor_of_first(es) == IF Len(es) = 0 THEN None ELSE Some(es[1].cursor)

end_cursor(es) == IF Len(es) = 0 THEN None ELSE Some(es[Len(es)].cursor)

build_connection(fst, lst, edges) ==
    LET edges_len == Len(edges)
        kept == take_then_skip(edges, UnwrapOr(fst, edges_len),
                               skip(fst, lst, edges_len))
        es == [i \in 1..Len(kept) |-> Edge(kept[i])]
    IN  Ok([edges |-> es,
            page_info |->
               [has_previous_page |-> has_previous_page(lst, edges_len),
                has_next_page |-> has_next_page(fst, edges_len),
                start_cursor |-> start_cursor(es),
                end_cursor |-> end_cursor(es)]])

empty ==
    [edges |-> <<>>,
     page_info |-> [has_previous_page |-> FALSE,
                    has_next_page |-> FALSE,
                    start_cursor |-> None,
                    end_cursor |-> None]]

\* ---------------------------------------------------------------- loader
LoaderErrors == {"connection refused", "statement timeout"}
LoaderModes == {"ignore", "honour"} \cup LoaderErrors

RECURSIVE Asc(_)
Asc(S) ==
    IF S = {} THEN <<>>
    ELSE LET m == CHOOSE x \in S : \A y \in S : x <= y
         IN  <<Node(m)>> \o Asc(S \ {m})

\* the candidate range: cursor > $after AND cursor < $before, ascending
Range(st, aft, bef) ==
    Asc({i \in st : /\ (IsSome(aft) => i > Unwrap(aft))
                    /\ (IsSome(bef) => i < Unwrap(bef))})

\* the load closure: m says what this loader does with the request
load(m, st, aft, bef, limit) ==
    IF m \in LoaderErrors THEN Err([kind |-> "LoaderFailure", msg |-> m])
    ELSE IF m = "honour" /\ IsSome(limit)
         THEN Ok(Take(Range(st, aft, bef), Unwrap(limit)))
         ELSE Ok(Range(st, aft, bef))

\* ------------------------------------------------------- the constructors
\* what one call did: how often it invoked the loader, with which
\* arguments, what the loader returned and the FieldResult of the call
Outcome(n, args, ld, res) ==
    [loads |-> n, largs |-> args, loaded |-> ld, result |-> res]

\* variant: a failed load is tried a second time
new_retrying(fst, aft, lst, bef, m, st) ==
    LET f == Transpose([i \in 1..Len(fst) |-> leq_zero(fst[i])])
        l == Transpose([i \in 1..Len(lst) |-> leq_zero(lst[i])])
    IN  IF ~f.ok THEN Outcome(0, None, None, f)
        ELSE IF ~l.ok THEN Outcome(0, None, None, l)
        ELSE
    LET ca == closure_args(f.val, aft, bef)
    IN  IF ~ca.ok THEN Outcome(0, None, None, ca)
        ELSE
    LET edges == load(m, st, ca.val[1], ca.val[2], ca.val[3])
    IN  IF ~edges.ok THEN Outcome(2, Some(ca.val), Some(edges), edges)
        ELSE Outcome(1, Some(ca.val), Some(edges),
                     build_connection(f.val, l.val, edges.val))

\* RelayConnection::new with a loader behaving as m over the store st
new(fst, aft, lst, bef, m, st) ==
    LET f == Transpose([i \in 1..Len(fst) |-> leq_zero(fst[i])])
    IN  IF ~f.ok THEN Outcome(0, None, None, f)
        ELSE
    LET l == Transpose([i \in 1..Len(lst) |-> leq_zero(lst[i])])
    IN  IF ~l.ok THEN Outcome(0, None, None, l)
        ELSE
    LET ca == closure_args(f.val, aft, bef)
    IN  IF ~ca.ok THEN Outcome(0, None, None, ca)
        ELSE
    LET edges == load(m, st, ca.val[1], ca.val[2], ca.val[3])
    IN  IF ~edges.ok THEN Outcome(1, Some(ca.val), Some(edges), edges)
        ELSE Outcome(1, Some(ca.val), Some(edges),
                     build_connection(f.val, l.val, edges.val))

\* variant: the cursors are decoded before the counts are validated
new_async_start_cursors_first(fst, aft, lst, bef) ==
    LET ca == closure_args(fst, aft, bef)
    IN  IF ~ca.ok THEN ca
        ELSE
    LET f == Transpose([i \in 1..Len(fst) |-> leq_zero(fst[i])])
    IN  IF ~f.ok THEN f
        ELSE
    LET l == Transpose([i \in 1..Len(lst) |-> leq_zero(lst[i])])
    IN  IF ~l.ok THEN l
        ELSE Ok([first |-> f.val, last |-> l.val, args |-> ca.val])

\* RelayConnection::new_async up to its await: Err, or the validated
\* counts the future keeps and the arguments it hands to the loader
new_async_start(fst, aft, lst, bef) ==
    LET f == Transpose([i \in 1..Len(fst) |-> leq_zero(fst[i])])
    IN  IF ~f.ok THEN f
        ELSE
    LET l == Transpose([i \in 1..Len(lst) |-> leq_zero(lst[i])])
    IN  IF ~l.ok THEN l
        ELSE
    LET ca == closure_args(f.val, aft, bef)
    IN  IF ~ca.ok THEN ca
        ELSE Ok([first |-> f.val, last |-> l.val, args |-> ca.val])

\* RelayConnection::new_async from the completion of the loader's future
new_async_resume(held, edges) ==
    IF ~edges.ok THEN edges
    ELSE build_connection(held.first, held.last, edges.val)

\* ------------------------------------------------------------ the system
VARIABLES first, last, after, before, store, pc, mode, loads, largs,
          loaded, result, fut, emptyConn

vars == <<first, last, after, before, store, pc, mode, loads, largs,
          loaded, result, fut, emptyConn>>

Forms == {"new", "new_async"}

\* cursor texts a client may send: "1", "+2", "foo", the empty text and
\* "4000000000", which is a number but not an i32
CursorTexts ==
    {<<"1">>, <<"+", "2">>, <<"f", "o", "o">>, <<>>,
     <<"4", "0", "0", "0", "0", "0", "0", "0", "0", "0">>}

OptCounts == {None} \cup {Some(i) : i \in (0 - 1)..MaxCount}
OptTexts == {None} \cup {Some(t) : t \in CursorTexts}

Init ==
    /\ first \in OptCounts
    /\ last \in OptCounts
    /\ after \in OptTexts
    /\ before \in OptTexts
    /\ store \in SUBSET (1..MaxId)
    /\ pc = [f \in Forms |-> "start"]
    /\ mode = [f \in Forms |-> "unset"]
    /\ loads = [f \in Forms |-> 0]
    /\ largs = [f \in Forms |-> None]
    /\ loaded = [f \in Forms |-> None]
    /\ result = [f \in Forms |-> None]
    /\ fut = None
    /\ emptyConn = None

\* a resolver calls RelayConnection::new
New ==
    /\ pc["new"] = "start"
    /\ \E m \in LoaderModes :
         \E r \in {new(first, after, last, before, m, store)} :
             /\ loads' = [loads EXCEPT !["new"] = r.loads]
             /\ largs' = [largs EXCEPT !["new"] = r.largs]
             /\ loaded' = [loaded EXCEPT !["new"] = r.loaded]
             /\ result' = [result EXCEPT !["new"] = Some(r.result)]
             /\ mode' = [mode EXCEPT !["new"] = IF r.loads > 0 THEN m ELSE "unset"]
    /\ pc' = [pc EXCEPT !["new"] = "done"]
    /\ UNCHANGED <<first, last, after, before, store, fut, emptyConn>>

\* a resolver polls RelayConnection::new_async up to the await
NewAsyncStart ==
    /\ pc["new_async"] = "start"
    /\ \E r \in {new_async_start(first, after, last, before)} :
           IF r.ok
           THEN /\ pc' = [pc EXCEPT !["new_async"] = "awaiting"]
                /\ loads' = [loads EXCEPT !["new_async"] = 1]
                /\ largs' = [largs EXCEPT !["new_async"] = Some(r.val.args)]
                /\ fut' = Some(r.val)
                /\ UNCHANGED <<loaded, result>>
           ELSE /\ pc' = [pc EXCEPT !["new_async"] = "done"]
                /\ result' = [result EXCEPT !["new_async"] = Some(r)]
                /\ UNCHANGED <<loads, largs, fut>>
    /\ UNCHANGED <<first, last, after, before, store, mode, loaded, emptyConn>>

\* the loader's future completes and new_async runs to its end
NewAsyncResume ==
    /\ pc["new_async"] = "awaiting"
    /\ \E m \in LoaderModes :
         \E edges \in {load(m, store, Unwrap(fut).args[1], Unwrap(fut).args[2],
                              Unwrap(fut).args[3])} :
             /\ result' = [result EXCEPT
                             !["new_async"] = Some(new_async_resume(Unwrap(fut), edges))]
             /\ loaded' = [loaded EXCEPT !["new_async"] = Some(edges)]
             /\ mode' = [mode EXCEPT !["new_async"] = m]
    /\ pc' = [pc EXCEPT !["new_async"] = "done"]
    /\ fut' = None
    /\ UNCHANGED <<first, last, after, before, store, loads, largs, emptyConn>>

\* a resolver calls RelayConnection::empty
Empty ==
    /\ emptyConn = None
    /\ emptyConn' = Some(empty)
    /\ UNCHANGED <<first, last, after, before, store, pc, mode, loads, largs,
                   loaded, result, fut>>

Next == New \/ NewAsyncStart \/ NewAsyncResume \/ Empty

Spec == Init /\ [][Next]_vars

TypeOK ==
    /\ first \in OptCounts /\ last \in OptCounts
    /\ after \in OptTexts /\ before \in OptTexts
    /\ store \subseteq 1..MaxId
    /\ \A f \in Forms :
         /\ pc[f] \in {"start", "awaiting", "done"}
         /\ mode[f] \in LoaderModes \cup {"unset"}
         /\ loads[f] \in 0..1

\* ------------------------------------------------------------ properties
Done(f) == pc[f] = "done"
Res(f) == Unwrap(result[f])
Negative(o) == IsSome(o) /\ Unwrap(o) < 0
Malformed(o) == IsSome(o) /\ ~parse(Unwrap(o)).ok
Succeeded(f) == Done(f) /\ Res(f).ok
Conn(f) == Res(f).val
Candidates(f) == Unwrap(loaded[f]).val
FailedWith(f, kind) == Done(f) /\ ~Res(f).ok /\ Res(f).err.kind = kind

\* C1: a negative `first` or `last` fails the call with InvalidArgument
\* ("Pagination argument must be positive") whatever the other arguments
\* are, and the loader is never invoked; zero is not rejected.
NegativeRejected ==
    \A f \in Forms :
      /\ (Negative(first) \/ Negative(last)) =>
            /\ loads[f] = 0
            /\ Done(f) =>
                 /\ FailedWith(f, "InvalidArgument")
                 /\ Res(f).err.msg = "Pagination argument must be positive"
      /\ (~Negative(first) /\ ~Negative(last) /\ Done(f)) =>
            ~FailedWith(f, "InvalidArgument")

NegativeRejectedWitness ==
    /\ first = Some(0)
    /\ last = Some(0 - 1)
    /\ Malformed(after)
    /\ FailedWith("new", "InvalidArgument")
    /\ FailedWith("new_async", "InvalidArgument")

ZeroAcceptedWitness ==
    /\ first = Some(0)
    /\ last = Some(0)
    /\ Succeeded("new")
    /\ Succeeded("new_async")

\* C2 as stated: a malformed `after` or `before` always fails the call
\* with CursorFormatError, the loader never being invoked.
CursorErrorAlways ==
    \A f \in Forms :
      (Malformed(after) \/ Malformed(before)) =>
         /\ loads[f] = 0
         /\ Done(f) => FailedWith(f, "CursorFormatError")

\* C2 amended: a malformed `after` or `before` never lets the loader be
\* invoked, and fails the call with CursorFormatError when `first` and
\* `last` are absent or non-negative; the error carries the description of
\* the parse failure of `after` if that is malformed, else of `before`.
CursorErrorWhenCountsValid ==
    \A f \in Forms :
      (Malformed(after) \/ Malformed(before)) =>
         /\ loads[f] = 0
         /\ (Done(f) /\ ~Negative(first) /\ ~Negative(last)) =>
              /\ FailedWith(f, "CursorFormatError")
              /\ Res(f).err = IF Malformed(after) THEN parse(Unwrap(after)).err
                              ELSE parse(Unwrap(before)).err

CursorErrorWitness ==
    /\ first = Some(1)
    /\ after = Some(<<"1">>)
    /\ before = Some(<<"f", "o", "o">>)
    /\ FailedWith("new", "CursorFormatError")
    /\ FailedWith("new_async", "CursorFormatError")

\* C3: the edges are the candidates at positions skipCount .. takeCount-1
\* in their order, where takeCount = min(n, first or n) and
\* skipCount = max(0, takeCount - (last or n)).
WindowExact ==
    \A f \in Forms :
      Succeeded(f) =>
        LET cand == Candidates(f)
            n == Len(cand)
            effFirst == IF IsSome(first) THEN Unwrap(first) ELSE n
            effLast == IF IsSome(last) THEN Unwrap(last) ELSE n
            takeCount == IF n < effFirst THEN n ELSE effFirst
            skipCount == IF takeCount - effLast > 0 THEN takeCount - effLast ELSE 0
            es == Conn(f).edges
        IN  /\ Len(es) = takeCount - skipCount
            /\ \A i \in 1..Len(es) : es[i].node = cand[skipCount + i]

WindowExactWitness ==
    /\ first = Some(2)
    /\ last = Some(1)
    /\ Succeeded("new")
    /\ Len(Candidates("new")) = 3
    /\ Len(Conn("new").edges) = 1
    /\ Conn("new").edges[1].node = Node(2)

\* C4: hasPreviousPage is true exactly when `last` is present and the
\* loader returned more than `last` records, hasNextPage exactly when
\* `first` is present and the loader returned more than `first` records.
FlagsFromRawLength ==
    \A f \in Forms :
      Succeeded(f) =>
        LET n == Len(Candidates(f))
            info == Conn(f).page_info
        IN  /\ info.has_previous_page = (IsSome(last) /\ n > Unwrap(last))
            /\ info.has_next_page = (IsSome(first) /\ n > Unwrap(first))

FlagsWitness ==
    /\ first = Some(2)
    /\ last = Some(1)
    /\ Succeeded("new_async")
    /\ Len(Candidates("new_async")) = 3
    /\ Len(Conn("new_async").edges) = 1
    /\ Conn("new_async").page_info.has_next_page
    /\ Conn("new_async").page_info.has_previous_page

\* C5: a loader that honours the limit and a loader that ignores it lead
\* to the same Connection for the same request over the same range.
LimitAdvisory ==
    \A f, g \in Forms :
      (Succeeded(f) /\ Succeeded(g) /\ mode[f] = "honour" /\ mode[g] = "ignore")
         => Conn(f) = Conn(g)

\* C6: the loader receives (after, before, limit) with the decoded
\* cursors in that order and limit = first + 1, absent when `first` is.
LimitDerivation ==
    \A f \in Forms :
      loads[f] > 0 =>
        LET a == Unwrap(largs[f])
        IN  /\ a[1] = IF IsSome(after) THEN Some(parse(Unwrap(after)).val) ELSE None
            /\ a[2] = IF IsSome(before) THEN Some(parse(Unwrap(before)).val) ELSE None
            /\ a[3] = IF IsSome(first) THEN Some(Unwrap(first) + 1) ELSE None

LimitDerivationWitness ==
    /\ first = Some(3)
    /\ last = Some(1)
    /\ after = Some(<<"1">>)
    /\ before = Some(<<"+", "2">>)
    /\ largs["new"] = Some(<<Some(1), Some(2), Some(4)>>)
    /\ largs["new_async"] = Some(<<Some(1), Some(2), Some(4)>>)

\* C7: startCursor and endCursor are the cursors of the first and the last
\* edge, every edge's cursor is the text of its node's cursor, and the two
\* cursors are absent exactly when there is no edge.
CursorsOf(c) ==
    /\ \A i \in 1..Len(c.edges) : c.edges[i].cursor = to_string(c.edges[i].node.id)
    /\ (Len(c.edges) = 0) <=> (c.page_info.start_cursor = None)
    /\ (Len(c.edges) = 0) <=> (c.page_info.end_cursor = None)
    /\ Len(c.edges) > 0 =>
         /\ c.page_info.start_cursor = Some(c.edges[1].cursor)
         /\ c.page_info.end_cursor = Some(c.edges[Len(c.edges)].cursor)

CursorsMatchEdges ==
    /\ \A f \in Forms : Succeeded(f) => CursorsOf(Conn(f))
    /\ IsSome(emptyConn) => CursorsOf(Unwrap(emptyConn))

CursorsWitness ==
    /\ Succeeded("new")
    /\ Conn("new").page_info.start_cursor = Some(<<"2">>)
    /\ Conn("new").page_info.end_cursor = Some(<<"3">>)
    /\ IsSome(emptyConn)

\* C8: an empty list from the loader gives the Connection with no edges,
\* both flags false and both cursors absent, which is the value of
\* RelayConnection::empty.
EmptyValue(c) ==
    /\ Len(c.edges) = 0
    /\ ~c.page_info.has_previous_page
    /\ ~c.page_info.has_next_page
    /\ c.page_info.start_cursor = None
    /\ c.page_info.end_cursor = None

EmptyInput ==
    /\ \A f \in Forms :
         (Done(f) /\ loaded[f] = Some(Ok(<<>>))) =>
            /\ Succeeded(f)
            /\ EmptyValue(Conn(f))
            /\ IsSome(emptyConn) => Conn(f) = Unwrap(emptyConn)
    /\ IsSome(emptyConn) => EmptyValue(Unwrap(emptyConn))

EmptyInputWitness ==
    /\ first = Some(0)
    /\ last = Some(0)
    /\ loaded["new"] = Some(Ok(<<>>))
    /\ loaded["new_async"] = Some(Ok(<<>>))
    /\ Done("new") /\ Done("new_async")
    /\ IsSome(emptyConn)

\* C9: the loader is invoked at most once per request, exactly once when
\* validation and decoding succeed and never otherwise; a failure of the
\* loader is the failure of the request, and no Connection is returned.
Valid ==
    /\ ~Negative(first) /\ ~Negative(last)
    /\ ~Malformed(after) /\ ~Malformed(before)

LoaderAtMostOnce ==
    \A f \in Forms :
      /\ loads[f] <= 1
      /\ loads[f] = 1 => Valid
      /\ loads[f] = 0 => loaded[f] = None
      /\ Done(f) => (loads[f] = 1 <=> Valid)
      /\ (Done(f) /\ IsSome(loaded[f]) /\ ~Unwrap(loaded[f]).ok) =>
            Res(f) = Unwrap(loaded[f])

LoaderFailureWitness ==
    /\ Done("new") /\ Done("new_async")
    /\ loads["new"] = 1 /\ loads["new_async"] = 1
    /\ FailedWith("new", "LoaderFailure")
    /\ Res("new").err.msg = "connection refused"
    /\ FailedWith("new_async", "LoaderFailure")
    /\ Res("new_async").err.msg = "statement timeout"

\* C10: for the same arguments and the same data from the loader, new and
\* new_async invoke the loader as often, with the same arguments, and
\* return the same result; new_async is suspended only in the loader call.
FormsEquivalent ==
    /\ (Done("new") /\ Done("new_async") /\ loaded["new"] = loaded["new_async"]) =>
          /\ result["new"] = result["new_async"]
          /\ loads["new"] = loads["new_async"]
          /\ largs["new"] = largs["new_async"]
    /\ pc["new_async"] = "awaiting" =>
          /\ loads["new_async"] = 1
          /\ result["new_async"] = None
          /\ IsSome(fut)
    /\ (Done("new") /\ pc["new_async"] = "awaiting") =>
          /\ loads["new"] = 1
          /\ largs["new"] = largs["new_async"]

FormsEquivalentWitness ==
    /\ Succeeded("new") /\ Succeeded("new_async")
    /\ mode["new"] = "ignore" /\ mode["new_async"] = "ignore"
    /\ Len(Conn("new").edges) = 2
    /\ Conn("new") = Conn("new_async")

FormsBothRejectWitness ==
    /\ Negative(first) /\ Malformed(after)
    /\ Done("new") /\ Done("new_async")
    /\ result["new"] = result["new_async"]
====
